---- MODULE Spec2Model ----
(***************************************************************************)
(* State-machine model of the weather monitoring application.              *)
(*                                                                         *)
(*   - the collector process: main() of app/weather_app.py (the variant    *)
(*     with the health server; main() of app/collector.py is the same loop *)
(*     line for line, without the health server and the two health flags), *)
(*   - the collector's health server (HealthCheckHandler.do_GET),          *)
(*   - the Query Service (app/api.py): its health endpoints and its three  *)
(*     data handlers,                                                      *)
(*   - the store (PostgreSQL), as a table plus a reachability flag that    *)
(*     the environment flips.                                              *)
(*                                                                         *)
(* One unit of model time is one second. A signal handler runs while the   *)
(* main thread is inside time.sleep; the sleep then goes on for what is    *)
(* left of it, which is any part of its length, counted in whole seconds.  *)
(* The data handlers of the Query Service count time in hours, the unit of *)
(* their `hours` parameter.                                                *)
(***************************************************************************)
EXTENDS Integers, Sequences, FiniteSets, TLC

\* ------------------------------------------------------------------ bounds
\* Largest UPDATE_INTERVAL explored (the program's default is 300).
MaxInterval == 2
\* Largest number of fetch-store cycles one run of the loop may start.
MaxCycles == 2
\* Number of Query Service requests that may be in flight at once.
NumClients == 2
\* Largest number of requests the Query Service handles in one run.
MaxRequests == 3
\* Largest number of rows the table holds while the data handlers are followed.
MaxRows == 2
\* Largest number of calls of get_weather_data, and of store_weather_data,
\* followed one by one.
MaxCalls == 3

\* ------------------------------------------------------- program constants
\* time.sleep(60) in the loop's except branch.
BACKOFF == 60
\* request.args.get('hours', default=24, type=int) and `hours = 24`.
DEFAULT_HOURS == 24
\* request.args.get('limit', default=100, type=int) and `limit = 100`.
DEFAULT_LIMIT == 100
\* `limit > 1000`
MAX_LIMIT == 1000

\* Temperatures the provider may report. The rows of a run differ by their
\* timestamps.
Temps == {20}

\* Readings of datetime.now(), in hours. It is the wall clock: the next reading
\* may be any of them, a later one or, after a clock step, an earlier one.
Times == {0, 2, 26}

\* Values of the `hours` and `limit` query parameters that requests carry;
\* a request may also leave a parameter out.
HoursArgs == {0, 1, 2}
LimitArgs == {0, 1, 1000, 1001}

VARIABLES
    \* ---- store (PostgreSQL)
    store_up,           \* the backend is reachable
    table,              \* rows of weather_data, in insertion order
    table_exists,       \* the table weather_data has been created
    \* ---- collector process (weather_app.py)
    api_key_set,        \* WEATHER_API_KEY is set in the environment
    update_interval,    \* int(os.getenv('UPDATE_INTERVAL', 300))
    pc,                 \* position of main()
    exit_code,          \* -1 while the process runs
    shutdown_flag,      \* global shutdown_flag
    app_healthy,        \* global app_healthy
    db_healthy,         \* global db_healthy of weather_app.py
    weather_data,       \* local weather_data of main()
    slept,              \* completed iterations of `for _ in range(update_interval)`
    hs_running,         \* the health server thread is serving
    hs_resp,            \* last response of the health server
    metrics,            \* the collector's Prometheus counters
    \* ---- history of the collector run (observation only)
    cycle,              \* fetches started so far
    fetch_outcome,      \* outcome of the most recent fetch
    cycle_inserts,      \* insert attempts in the current cycle
    sig_pc,             \* pc when the first shutdown signal was delivered
    since_signal,       \* seconds spent in time.sleep since the first shutdown signal
    waited,             \* seconds spent in time.sleep since the last fetch began
    fetches_after_signal,
    inserts_after_signal,
    \* ---- Query Service process (api.py)
    api_pc,             \* "startup" until the module-level probe has run
    api_db_healthy,     \* global db_healthy of api.py
    api_req,            \* per client: the request in flight
    api_handled,        \* requests answered so far
    \* ---- Query Service, data handlers
    now,                \* the wall clock, datetime.now()
    query,              \* the data request that is followed
    \* ---- provider client (WeatherAPI.get_weather_data)
    fetch_call,         \* the most recent call that is followed on its own
    \* ---- store client (WeatherDB)
    store_call          \* the most recent call that is followed on its own

store_vars == <<store_up, table, table_exists>>
collector_vars == <<api_key_set, update_interval, pc, exit_code, shutdown_flag,
                    app_healthy, db_healthy, weather_data, slept, hs_running, hs_resp, metrics>>
history_vars == <<cycle, fetch_outcome, cycle_inserts, sig_pc, since_signal, waited,
                  fetches_after_signal, inserts_after_signal>>
api_vars == <<api_pc, api_db_healthy, api_req, api_handled>>
query_vars == <<now, query>>
fetch_vars == <<fetch_call, store_call>>
vars == <<store_vars, collector_vars, history_vars, api_vars, query_vars, fetch_vars>>

\* ------------------------------------------------------------------ values
\* Python's None / an unbound local.
NoneVal == [kind |-> "None"]

\* The dict get_weather_data returns on success; timestamp is datetime.now(),
\* which grows from one fetch to the next: the cycle number stands for it.
\* Humidity, pressure and the location take one value each.
Observation(temp, ts) ==
    [kind |-> "obs", temperature |-> temp, humidity |-> 50, pressure |-> 1013,
     timestamp |-> ts, city |-> "Mississauga", country |-> "Canada"]

\* The row the INSERT of store_weather_data adds; id is the SERIAL key.
Row(data, t) ==
    [id |-> Len(t) + 1, temperature |-> data.temperature,
     humidity |-> data.humidity, pressure |-> data.pressure,
     timestamp |-> data.timestamp, city |-> data.city, country |-> data.country]

NoResponse == [path |-> "none", status |-> 0, body |-> "none"]

\* A client of the Query Service with no request: `error` is the error field
\* of the response body ("none": no such field), `counted` the labels on which
\* the handler called api_requests_total.labels(...).inc(), in order, and
\* `observed` the number of its api_request_duration observations.
Idle == [state |-> "idle", path |-> "none", probe |-> FALSE, status |-> 0,
         error |-> "none", counted |-> <<>>, observed |-> 0]

\* No data request is in progress.
NoQuery == [state |-> "idle"]

\* No method of WeatherDB has been called.
NoStoreCall == [method |-> "none", outcome |-> "none", returned |-> FALSE,
                data |-> NoneVal, before |-> <<>>, existed |-> FALSE,
                point |-> "none", conns |-> [opened |-> 0, closed |-> 0],
                cursors |-> [opened |-> 0, closed |-> 0]]

\* get_weather_data has not been called.
NoCall == [response |-> "none", raised |-> "none", outcome |-> "pending",
           result |-> NoneVal, http_requests |-> 0]

\* Positions of main() between `while not shutdown_flag` and the end of the loop.
RunningPcs == {"loop_check", "fetch", "store", "interval_check", "interval_sleep",
               "backoff"}

Running == pc \in RunningPcs

Init ==
    /\ store_up \in BOOLEAN
    /\ table = <<>>
    /\ table_exists = FALSE
    /\ api_key_set \in BOOLEAN
    /\ update_interval \in 0..MaxInterval
    /\ pc = "start"
    /\ exit_code = -1
    /\ shutdown_flag = FALSE
    /\ app_healthy = TRUE
    /\ db_healthy = FALSE
    /\ weather_data = NoneVal
    /\ slept = 0
    /\ hs_running = FALSE
    /\ hs_resp = NoResponse
    /\ metrics = [requests |-> 0, errors |-> 0, db_init |-> 0, db_insert |-> 0,
                  db_errors |-> 0]
    /\ cycle = 0
    /\ fetch_outcome = "pending"
    /\ cycle_inserts = 0
    /\ sig_pc = "none"
    /\ since_signal = 0
    /\ waited = 0
    /\ fetches_after_signal = 0
    /\ inserts_after_signal = 0
    /\ api_pc = "startup"
    /\ api_db_healthy = FALSE
    /\ api_req = [c \in 1..NumClients |-> Idle]
    /\ api_handled = 0
    /\ now = 0
    /\ query = NoQuery
    /\ fetch_call = NoCall
    /\ store_call = NoStoreCall


\* ------------------------------------------------------------------ store
\* The environment: the backend becomes unreachable, or reachable again.
StoreFlap ==
    /\ store_up' = ~store_up
    /\ UNCHANGED <<table, table_exists, collector_vars, history_vars, api_vars,
                   query_vars, fetch_vars>>

\* ------------------------------------------------ collector: main() helpers
Bump(m, field) == [m EXCEPT ![field] = @ + 1]

\* The seconds a time.sleep(seconds) that returns now may have lasted since
\* the first shutdown signal: none before a signal, all of them when the
\* signal came before the sleep began, and any part of them when it came
\* during the sleep.
SleptSinceSignal(seconds) ==
    CASE sig_pc = "none" -> {0}
      [] sig_pc = pc -> 1..seconds
      [] OTHER -> {seconds}

\* Faulty variant: the loop's own except clears app_healthy too.
AppHealthyAfterLoopError(next) ==
    IF next \in {"crashed", "backoff"} THEN FALSE ELSE app_healthy

\* main(), outer `except Exception`: the only place besides signal_handler
\* that writes app_healthy. It is reached when main() is about to die.
AppHealthyAfter(next) == IF next = "crashed" THEN FALSE ELSE app_healthy

\* What entering position `next` of main() does, whichever call led there.
\* "crashed": the outer except logs, clears app_healthy and re-raises; the
\* uncaught exception ends the process (and its daemon thread) with status 1.
\* "interval_check": the `for` statement starts a fresh range.
Enter(next) ==
    /\ pc' = next
    /\ exit_code' = IF next = "crashed" THEN 1 ELSE exit_code
    /\ app_healthy' = AppHealthyAfter(next)
    /\ hs_running' = IF next = "crashed" THEN FALSE ELSE hs_running
    /\ slept' = IF next = "interval_check" THEN 0 ELSE slept

\* Faulty variant: a failure of init_db is logged and not re-raised.
AfterInitDbSwallowed(outcome) == "api_init"

\* Where main() goes after init_db: init_db re-raises every failure, and the
\* outer except of main() re-raises it.
AfterInitDb(outcome) == IF outcome = "ok" THEN "api_init" ELSE "crashed"

\* Where main() goes after WeatherAPI(): __init__ raises ValueError when
\* WEATHER_API_KEY is absent.
AfterApiInit == IF api_key_set THEN "loop_check" ELSE "crashed"

\* What a call of the provider may bring:
\*   "ok"          a 2xx response whose JSON has current.temp_c, current.humidity
\*                 and current.pressure_mb;
\*   "malformed"   a 2xx response whose JSON lacks one of them;
\*   "http_error"  a response that is not 2xx;
\*   "timeout"     no response within the 10 seconds of requests.get;
\*   "exception"   requests.get raises an exception that is not a
\*                 RequestException.
ProviderResponses == {"ok", "malformed", "http_error", "timeout", "exception"}

\* The exception the body of the `try` of get_weather_data raises: Timeout or
\* the other exception from requests.get, HTTPError from raise_for_status(),
\* KeyError from data['current'][...]; "none" when it reaches its return.
RaisedInTry(response) ==
    CASE response = "timeout" -> "Timeout"
      [] response = "exception" -> "Exception"
      [] response = "http_error" -> "HTTPError"
      [] response = "malformed" -> "KeyError"
      [] OTHER -> "none"

\* The exception classes that `except requests.exceptions.RequestException`
\* catches, among those above.
RequestExceptions == {"Timeout", "HTTPError"}

\* Faulty variant: a request that fails is sent a second time.
HttpRequestsRetried(response) == IF response \in {"timeout", "http_error"} THEN 2 ELSE 1

\* The HTTP requests one call of get_weather_data sends: requests.get is
\* called once, outside any loop, on the module-level API without a retrying
\* adapter, and the except clause does not call it again.
HttpRequests(response) == 1

\* How get_weather_data ends: it returns the dict ("ok"), its except clause
\* returns None ("none"), or the exception leaves it ("raised").
GetWeatherDataOutcome(response) ==
    CASE RaisedInTry(response) = "none" -> "ok"
      [] RaisedInTry(response) \in RequestExceptions -> "none"
      [] OTHER -> "raised"

\* Faulty variant: None from get_weather_data is treated like an exception.
AfterFetchErrorToBackoff(outcome) ==
    IF outcome = "ok" THEN "store" ELSE "backoff"

\* Faulty variant: an exception of get_weather_data escapes the loop.
AfterFetchCrashOnRaise(outcome) ==
    CASE outcome = "ok" -> "store"
      [] outcome = "none" -> "interval_check"
      [] OTHER -> "crashed"

\* Faulty variant: the flag is read between the fetch and the insert.
AfterFetchSkipInsertWhenDraining(outcome) ==
    CASE outcome = "ok" /\ ~shutdown_flag -> "store"
      [] outcome = "raised" -> "backoff"
      [] OTHER -> "interval_check"

\* Where the loop goes when get_weather_data is over:
\*   "ok"     a dict came back: `if weather_data:` holds, the insert starts;
\*   "none"   RequestException was caught inside: None came back, the insert
\*            is skipped and the interval wait starts;
\*   "raised" any other exception left get_weather_data: the loop's
\*            `except Exception` takes it to the back-off.
AfterFetch(outcome) ==
    CASE outcome = "ok" -> "store"
      [] outcome = "none" -> "interval_check"
      [] OTHER -> "backoff"

\* How a call of store_weather_data may end: get_connection() raises
\* ("connect_failed", the only way on an unreachable store), conn.cursor()
\* raises ("cursor_failed"), cur.execute raises ("execute_failed"),
\* conn.commit() raises ("commit_failed"), or the call returns ("ok").
StoreOutcomes ==
    IF ~store_up THEN {"connect_failed"}
    ELSE IF ~table_exists THEN {"connect_failed", "cursor_failed", "execute_failed"}
    ELSE {"ok", "connect_failed", "cursor_failed", "execute_failed", "commit_failed"}

\* The statement of the try block that raised ("none": none did).
StorePoint(outcome) ==
    CASE outcome = "connect_failed" -> "connect"
      [] outcome = "cursor_failed" -> "cursor"
      [] outcome = "execute_failed" -> "execute"
      [] outcome = "commit_failed" -> "commit"
      [] OTHER -> "none"

\* The statements of init_db at which a call with this outcome raised.
InitDbPoints(outcome) ==
    IF outcome = "ok" THEN {"none"}
    ELSE IF ~store_up THEN {"connect"}
    ELSE {"connect", "cursor", "execute", "commit"}

\* `conn` and `cur` are bound once the statement that assigns them returned.
ConnOpened(point) == IF point = "connect" THEN 0 ELSE 1
CursorOpened(point) == IF point \in {"connect", "cursor"} THEN 0 ELSE 1

\* Faulty variant: the connection is closed at the end of the try block.
ClosedOnSuccess(opened, point) == IF point = "none" THEN opened ELSE 0

\* The `finally` block of init_db and store_weather_data:
\* `if 'cur' in locals(): cur.close()`, `if 'conn' in locals(): conn.close()`,
\* run once on every way out of the try block.
ClosedInFinally(opened, point) == opened

\* What a call did with connections and cursors.
Resources(point) ==
    [point |-> point,
     conns |-> [opened |-> ConnOpened(point),
                closed |-> ClosedInFinally(ConnOpened(point), point)],
     cursors |-> [opened |-> CursorOpened(point),
                  closed |-> ClosedInFinally(CursorOpened(point), point)]]

\* Faulty variant: the connection is in autocommit mode, the row is in the
\* table as soon as cur.execute returns.
TableAfterStoreAutocommit(outcome, data) ==
    IF outcome \in {"ok", "commit_failed"} THEN Append(table, Row(data, table))
                                           ELSE table

\* Faulty variant: the insert overwrites what the table held.
TableAfterStoreReplace(outcome, data) ==
    IF outcome = "ok" THEN <<Row(data, <<>>)>> ELSE table

\* The rows of the table when store_weather_data is over. The INSERT runs in
\* the transaction of its own connection: its row is in the table once
\* conn.commit() has returned, and conn.close() in the `finally` block drops
\* a transaction that was not committed.
TableAfterStore(outcome, data) ==
    IF outcome = "ok" THEN Append(table, Row(data, table)) ELSE table

\* Faulty variant: the next fetch is started from within the insert.
AfterStoreFetchAgain(ok) == IF ok THEN "fetch" ELSE "backoff"

\* Faulty variant: a failed insert is tried again at once.
AfterStoreRetry(ok) == IF ok THEN "interval_check" ELSE "store"

\* Faulty variant: a failed insert escapes the loop once the flag is set.
AfterStoreCrashWhenDraining(ok) ==
    IF ok THEN "interval_check" ELSE IF shutdown_flag THEN "crashed" ELSE "backoff"

\* Where the loop goes when store_weather_data is over: it re-raises every
\* failure, which the loop's `except Exception` takes to the back-off.
AfterStore(ok) == IF ok THEN "interval_check" ELSE "backoff"

\* Faulty variant: the wait does not read the flag.
BreakWaitNever == FALSE

\* `if shutdown_flag: break` at the head of each iteration of the wait.
BreakWait == shutdown_flag

\* Faulty variant: the loop is `while True`.
LoopExitsNever == FALSE

\* The condition of `while not shutdown_flag`.
LoopExits == shutdown_flag

\* ------------------------------------------------------- collector: main()
\* signal.signal(SIGTERM/SIGINT, signal_handler); start_health_server(port).
MainStart ==
    /\ pc = "start"
    /\ pc' = "init_db"
    /\ hs_running' = TRUE
    /\ UNCHANGED <<store_vars, api_key_set, update_interval, exit_code,
                   shutdown_flag, app_healthy, db_healthy, weather_data, slept,
                   hs_resp, metrics, history_vars, api_vars, query_vars, fetch_vars>>

\* How a call of init_db may end.
InitDbOutcomes ==
    IF store_up THEN {"ok", "operational_error", "other_error"}
                ELSE {"operational_error"}

\* The table exists once CREATE TABLE IF NOT EXISTS has been committed.
TableExistsAfterInitDb(outcome) == table_exists \/ outcome = "ok"

\* Faulty variant: the table is created anew, as by DROP TABLE and CREATE TABLE.
TableAfterInitDbRecreate(outcome) == IF outcome = "ok" THEN <<>> ELSE table

\* The rows after init_db: a table that is created is empty; IF NOT EXISTS
\* makes the statement do nothing to a table that is there.
TableAfterInitDb(outcome) ==
    IF outcome = "ok" /\ ~table_exists THEN <<>> ELSE table

\* weather_db.init_db(): CREATE TABLE IF NOT EXISTS leaves the rows alone.
\*   "ok"                 needs a reachable store; db_healthy = True
\*   "operational_error"  db_healthy = False, db_errors_total.inc(), raise
\*   "other_error"        any other exception: only the finally block runs
InitDb ==
    /\ pc = "init_db"
    /\ \E outcome \in InitDbOutcomes :
        /\ table' = TableAfterInitDb(outcome)
        /\ table_exists' = TableExistsAfterInitDb(outcome)
        /\ db_healthy' = CASE outcome = "ok" -> TRUE
                           [] outcome = "operational_error" -> FALSE
                           [] OTHER -> db_healthy
        /\ metrics' = IF outcome = "operational_error"
                        THEN Bump(Bump(metrics, "db_init"), "db_errors")
                        ELSE Bump(metrics, "db_init")
        /\ Enter(AfterInitDb(outcome))
    /\ UNCHANGED <<store_up, api_key_set, update_interval, shutdown_flag,
                   weather_data, hs_resp, history_vars, api_vars, query_vars, fetch_vars>>

\* weather_api = WeatherAPI()
ApiInit ==
    /\ pc = "api_init"
    /\ Enter(AfterApiInit)
    /\ UNCHANGED <<store_vars, api_key_set, update_interval, shutdown_flag,
                   db_healthy, weather_data, hs_resp, metrics, history_vars,
                   api_vars, query_vars, fetch_vars>>

\* `while not shutdown_flag:`  either the loop is left (health_server.shutdown(),
\* main returns, status 0) or get_weather_data is called: the fetch is in flight.
LoopCheck ==
    /\ pc = "loop_check"
    /\ IF LoopExits
         THEN /\ pc' = "stopped"
              /\ exit_code' = 0
              /\ hs_running' = FALSE
              /\ UNCHANGED <<metrics, history_vars>>
         ELSE /\ cycle < MaxCycles
              /\ pc' = "fetch"
              /\ metrics' = Bump(metrics, "requests")
              /\ cycle' = cycle + 1
              /\ fetch_outcome' = "pending"
              /\ cycle_inserts' = 0
              /\ fetches_after_signal' =
                    IF sig_pc = "none" THEN fetches_after_signal
                                       ELSE fetches_after_signal + 1
              /\ waited' = 0
              /\ UNCHANGED <<exit_code, hs_running, sig_pc, since_signal,
                             inserts_after_signal>>
    /\ UNCHANGED <<store_vars, api_key_set, update_interval, shutdown_flag,
                   app_healthy, db_healthy, weather_data, slept, hs_resp, api_vars, query_vars, fetch_vars>>

\* get_weather_data() returns or raises.
FetchReturn ==
    /\ pc = "fetch"
    /\ \E response \in ProviderResponses, temp \in Temps :
        LET outcome == GetWeatherDataOutcome(response) IN
        /\ fetch_outcome' = outcome
        /\ weather_data' = CASE outcome = "ok" -> Observation(temp, cycle)
                             [] outcome = "none" -> NoneVal
                             [] OTHER -> weather_data
        /\ Enter(AfterFetch(outcome))
        /\ metrics' =
              LET m == IF outcome = "none" THEN Bump(metrics, "errors") ELSE metrics
              IN  IF AfterFetch(outcome) = "store" THEN Bump(m, "db_insert") ELSE m
        /\ cycle_inserts' = IF AfterFetch(outcome) = "store" THEN cycle_inserts + 1
                                                           ELSE cycle_inserts
        /\ inserts_after_signal' =
              IF AfterFetch(outcome) = "store" /\ sig_pc # "none"
                THEN inserts_after_signal + 1 ELSE inserts_after_signal
    /\ UNCHANGED <<store_vars, api_key_set, update_interval, shutdown_flag,
                   db_healthy, hs_resp, cycle, sig_pc, since_signal, waited,
                   fetches_after_signal, api_vars, query_vars, fetch_vars>>

\* store_weather_data(weather_data) returns (the row is committed) or raises
\* (db_errors_total.inc(), nothing committed).
StoreReturn ==
    /\ pc = "store"
    /\ \E outcome \in StoreOutcomes :
        LET ok == outcome = "ok" IN
        /\ table' = TableAfterStore(outcome, weather_data)
        /\ metrics' = IF ok THEN metrics ELSE Bump(metrics, "db_errors")
        /\ Enter(AfterStore(ok))
    /\ UNCHANGED <<store_up, table_exists, api_key_set, update_interval, shutdown_flag,
                   db_healthy, weather_data, hs_resp, history_vars, api_vars, query_vars, fetch_vars>>

\* Head of one iteration of `for _ in range(update_interval)`.
IntervalCheck ==
    /\ pc = "interval_check"
    /\ pc' = IF slept >= update_interval \/ BreakWait THEN "loop_check"
                                                     ELSE "interval_sleep"
    /\ UNCHANGED <<store_vars, api_key_set, update_interval, exit_code,
                   shutdown_flag, app_healthy, db_healthy, weather_data, slept,
                   hs_running, hs_resp, metrics, history_vars,
                   api_vars, query_vars, fetch_vars>>

\* time.sleep(1) returns.
IntervalSleep ==
    /\ pc = "interval_sleep"
    /\ pc' = "interval_check"
    /\ slept' = slept + 1
    /\ waited' = waited + 1
    /\ \E d \in SleptSinceSignal(1) : since_signal' = since_signal + d
    /\ UNCHANGED <<store_vars, api_key_set, update_interval, exit_code,
                   shutdown_flag, app_healthy, db_healthy, weather_data,
                   hs_running, hs_resp, metrics, cycle,
                   fetch_outcome, cycle_inserts, sig_pc, fetches_after_signal,
                   inserts_after_signal, api_vars, query_vars, fetch_vars>>

\* Faulty variant: the back-off lasts as long as the configured interval.
BackoffSecondsInterval == update_interval

\* The argument of time.sleep in `except Exception`.
BackoffSeconds == BACKOFF

\* time.sleep(60) in `except Exception` returns, and the loop condition is
\* evaluated again. The flag is not read during the back-off.
BackoffReturn ==
    /\ pc = "backoff"
    /\ pc' = "loop_check"
    /\ waited' = waited + BackoffSeconds
    /\ \E d \in SleptSinceSignal(BackoffSeconds) : since_signal' = since_signal + d
    /\ UNCHANGED <<store_vars, api_key_set, update_interval, exit_code,
                   shutdown_flag, app_healthy, db_healthy, weather_data, slept,
                   hs_running, hs_resp, metrics, cycle, fetch_outcome,
                   cycle_inserts, sig_pc, fetches_after_signal,
                   inserts_after_signal, api_vars, query_vars, fetch_vars>>

\* The steps of the main thread.
LoopStep ==
    \/ MainStart
    \/ InitDb
    \/ ApiInit
    \/ LoopCheck
    \/ FetchReturn
    \/ StoreReturn
    \/ IntervalCheck
    \/ IntervalSleep
    \/ BackoffReturn

\* SIGTERM or SIGINT is delivered while the process runs: signal_handler.
\* It runs between two steps of the main thread, which then go on.
SignalHandler ==
    /\ pc \notin {"start", "stopped", "crashed"}
    /\ shutdown_flag' = TRUE
    /\ app_healthy' = FALSE
    /\ sig_pc' = IF sig_pc = "none" THEN pc ELSE sig_pc
    /\ UNCHANGED <<store_vars, api_key_set, update_interval, pc, exit_code,
                   db_healthy, weather_data, slept, hs_running,
                   hs_resp, metrics, cycle, fetch_outcome, cycle_inserts,
                   since_signal, waited, fetches_after_signal, inserts_after_signal,
                   api_vars, query_vars, fetch_vars>>

\* ------------------------------------------- collector: the health server
HealthPaths == {"/health", "/ready", "/metrics", "/other"}

\* Faulty variant: the store is ready as soon as it is reachable.
CollectorReadyStatusFromStore == IF store_up THEN 200 ELSE 503

\* do_GET, `/ready` branch: the flag init_db left behind decides.
CollectorReadyStatus == IF db_healthy THEN 200 ELSE 503

HealthStatus(path) ==
    CASE path = "/health" -> 200
      [] path = "/ready" -> CollectorReadyStatus
      [] path = "/metrics" -> 200
      [] OTHER -> 404

\* Faulty variant: the liveness body does not read app_healthy.
HealthBodyConstant(path) ==
    CASE path = "/health" -> "healthy"
      [] path = "/ready" -> IF db_healthy THEN "ready" ELSE "not ready"
      [] path = "/metrics" -> "metrics"
      [] OTHER -> "none"

\* do_GET: the `status` field of the body ("none": no such field).
HealthBody(path) ==
    CASE path = "/health" -> IF app_healthy THEN "healthy" ELSE "unhealthy"
      [] path = "/ready" -> IF db_healthy THEN "ready" ELSE "not ready"
      [] path = "/metrics" -> "metrics"
      [] OTHER -> "none"

\* HealthCheckHandler.do_GET. HTTPServer is not threaded: serve_forever takes
\* one request at a time, on the daemon thread.
HealthGet ==
    /\ hs_running
    /\ hs_resp = NoResponse
    /\ \E path \in HealthPaths :
        hs_resp' = [path |-> path, status |-> HealthStatus(path),
                    body |-> HealthBody(path)]
    /\ UNCHANGED <<store_vars, api_key_set, update_interval, pc, exit_code,
                   shutdown_flag, app_healthy, db_healthy, weather_data, slept,
                   hs_running, metrics, history_vars, api_vars, query_vars, fetch_vars>>

\* The response is on the wire and the request is finished; serve_forever
\* waits for the next one.
HealthDone ==
    /\ hs_resp # NoResponse
    /\ hs_resp' = NoResponse
    /\ UNCHANGED <<store_vars, api_key_set, update_interval, pc, exit_code,
                   shutdown_flag, app_healthy, db_healthy, weather_data, slept,
                   hs_running, metrics, history_vars, api_vars, query_vars, fetch_vars>>

\* ------------------------------------------------- Query Service (api.py)
\* The routes of health(), ready() and metrics(), and a path without a route.
ApiPaths == {"/health", "/ready", "/metrics", "/other"}

\* The label set of one child of api_requests_total.
Label(endpoint, status) == [method |-> "GET", endpoint |-> endpoint, status |-> status]

\* Faulty variant: ready() reads the global flag instead.
ReadyStatusFromGlobal(probe) == IF api_db_healthy THEN 200 ELSE 503

\* ready(): the value check_db_health() returned to this request decides.
ReadyStatus(probe) == IF probe THEN 200 ELSE 503

\* The status health(), ready(), metrics() and the 404 handler return.
ApiStatus(path, probe) ==
    CASE path = "/ready" -> ReadyStatus(probe)
      [] path = "/other" -> 404
      [] OTHER -> 200

\* The `error` field of their bodies: only not_found() writes one.
ApiError(path, probe) == IF path = "/other" THEN "Endpoint not found" ELSE "none"

\* Their api_requests_total increments: health() and both branches of ready()
\* make one; metrics() and not_found() make none.
ApiCounted(path, status) ==
    IF path \in {"/health", "/ready"} THEN <<Label(path, status)>> ELSE <<>>

\* Their api_request_duration observations: the histogram is declared and
\* no handler uses it.
ApiObserved(path) == 0

InFlight == Cardinality({c \in 1..NumClients :
                            api_req[c].state \in {"received", "probed"}})

\* `check_db_health()` at import time.
ApiStartup ==
    /\ api_pc = "startup"
    /\ api_pc' = "serving"
    /\ api_db_healthy' = store_up
    /\ UNCHANGED <<store_vars, collector_vars, history_vars, query_vars, fetch_vars, api_req, api_handled>>

\* A request arrives; Flask hands it to the handler of its route.
ApiReceive(c) ==
    /\ api_pc = "serving"
    /\ api_req[c].state \in {"idle", "done"}
    /\ api_handled + InFlight < MaxRequests
    /\ \E path \in ApiPaths :
        api_req' = [api_req EXCEPT ![c] = [Idle EXCEPT !.state = "received",
                                                       !.path = path]]
    /\ UNCHANGED <<store_vars, collector_vars, history_vars, query_vars, fetch_vars, api_pc,
                   api_db_healthy, api_handled>>

\* ready() calls check_db_health(): SELECT 1 on a fresh connection; the outcome
\* is written to the global and returned.
ApiProbe(c) ==
    /\ api_req[c].state = "received"
    /\ api_req[c].path = "/ready"
    /\ api_db_healthy' = store_up
    /\ api_req' = [api_req EXCEPT ![c].state = "probed", ![c].probe = store_up]
    /\ UNCHANGED <<store_vars, collector_vars, history_vars, query_vars, fetch_vars, api_pc, api_handled>>

\* The handler returns its response.
ApiRespond(c) ==
    /\ \/ api_req[c].state = "received" /\ api_req[c].path # "/ready"
       \/ api_req[c].state = "probed" /\ api_req[c].path = "/ready"
    /\ LET path == api_req[c].path
           status == ApiStatus(path, api_req[c].probe)
       IN  api_req' = [api_req EXCEPT
                         ![c].state = "done",
                         ![c].status = status,
                         ![c].error = ApiError(path, api_req[c].probe),
                         ![c].counted = ApiCounted(path, status),
                         ![c].observed = ApiObserved(path)]
    /\ api_handled' = api_handled + 1
    /\ UNCHANGED <<store_vars, collector_vars, history_vars, query_vars, fetch_vars, api_pc, api_db_healthy>>

\* ------------------------------------- Query Service: the data handlers
\* The handlers share nothing but the store, so one request is followed from
\* its arrival to its response, between steps of the store, of the clock and
\* of a collector that writes to the table.
DataPaths == {"/api/weather/current", "/api/weather/history", "/api/weather/stats"}

\* A query parameter as the request carries it: <<>> when it is left out,
\* <<v>> when it is given as the integer v.
ArgValues(S) == {<<>>} \cup {<<v>> : v \in S}

\* request.args.get(key, default=default, type=int)
ArgsGet(arg, default) == IF arg = <<>> THEN default ELSE arg[1]

\* Faulty variant: `if hours < 0`.
ValidHoursFromZero(hours) == IF hours < 0 THEN DEFAULT_HOURS ELSE hours

\* `if hours < 1: hours = 24`
ValidHours(hours) == IF hours < 1 THEN DEFAULT_HOURS ELSE hours

\* `if limit < 1 or limit > 1000: limit = 100`
ValidLimit(limit) == IF limit < 1 \/ limit > MAX_LIMIT THEN DEFAULT_LIMIT ELSE limit

\* time_threshold = datetime.now() - timedelta(hours=hours)
TimeThreshold(hours) == now - hours

Min(a, b) == IF a <= b THEN a ELSE b

\* Faulty variant: the WHERE clause is missing.
MatchingAll(t, threshold) == 1..Len(t)

\* WHERE timestamp >= %s : the positions of the rows of t that qualify.
Matching(t, threshold) == {i \in 1..Len(t) : t[i].timestamp >= threshold}

\* Faulty variant: ORDER BY timestamp ASC.
OrderingsAscending(t, I) ==
    {s \in [1..Cardinality(I) -> I] :
        /\ \A j, k \in 1..Cardinality(I) : j # k => s[j] # s[k]
        /\ \A j, k \in 1..Cardinality(I) :
              j < k => t[s[j]].timestamp <= t[s[k]].timestamp}

\* ORDER BY timestamp DESC over the rows at positions I: every arrangement
\* in which no row comes before one with a greater timestamp; rows with equal
\* timestamps come in whichever order the backend produces.
Orderings(t, I) ==
    {s \in [1..Cardinality(I) -> I] :
        /\ \A j, k \in 1..Cardinality(I) : j # k => s[j] # s[k]
        /\ \A j, k \in 1..Cardinality(I) :
              j < k => t[s[j]].timestamp >= t[s[k]].timestamp}

\* SELECT ... ORDER BY timestamp DESC LIMIT limit : the possible result lists.
SelectRows(t, I, limit) ==
    {[j \in 1..Min(limit, Cardinality(I)) |-> t[s[j]]] : s \in Orderings(t, I)}

\* The set of the values of field f over the rows at positions I.
Column(t, I, f) == {t[i][f] : i \in I}

SetMin(S) == CHOOSE x \in S : \A y \in S : x <= y

SetMax(S) == CHOOSE x \in S : \A y \in S : x >= y

\* The one row of the aggregate SELECT of get_weather_stats over the rows at
\* positions I. Over no rows COUNT(*) is 0 and MIN and MAX are NULL.
Aggregate(t, I) ==
    IF I = {}
      THEN [record_count |-> 0, min_temperature |-> NoneVal,
            max_temperature |-> NoneVal, oldest_record |-> NoneVal,
            newest_record |-> NoneVal]
      ELSE [record_count |-> Cardinality(I),
            min_temperature |-> SetMin(Column(t, I, "temperature")),
            max_temperature |-> SetMax(Column(t, I, "temperature")),
            oldest_record |-> SetMin(Column(t, I, "timestamp")),
            newest_record |-> SetMax(Column(t, I, "timestamp"))]

\* The responses of the data handlers: status, the `error` field of the body
\* ("none": no such field), whether the body has a `message` field, and the
\* rows or the statistics the body carries.
Answer(status, error, message, rows, stats) ==
    [status |-> status, error |-> error, message |-> message, rows |-> rows,
     stats |-> stats]

\* Faulty variant: the body of the 500 handler of the application, without
\* the message.
ReadFailureNoMessage == Answer(500, "Internal server error", FALSE, <<>>, NoneVal)

\* `except Exception as e:` of the three handlers.
ReadFailure == Answer(500, "Internal server error", TRUE, <<>>, NoneVal)

\* Faulty variant: the `else` branch is missing, an empty result is answered 200.
CurrentAnswerNoElse(rows) == Answer(200, "none", FALSE, rows, NoneVal)

\* get_current_weather after fetchone(): rows holds the row, if there is one.
CurrentAnswer(rows) ==
    IF rows # <<>> THEN Answer(200, "none", FALSE, rows, NoneVal)
                   ELSE Answer(404, "No weather data available", FALSE, <<>>, NoneVal)

\* get_weather_history after fetchall().
HistoryAnswer(rows) == Answer(200, "none", FALSE, rows, NoneVal)

\* Faulty variant: `if result:`, which the one row of an aggregate always meets.
StatsAnswerAnyCount(result) == Answer(200, "none", FALSE, <<>>, result)

\* get_weather_stats after fetchone(): `if result and result['record_count'] > 0`.
StatsAnswer(result) ==
    IF result.record_count > 0
      THEN Answer(200, "none", FALSE, <<>>, result)
      ELSE Answer(404, "No weather data available for the specified time range",
                  FALSE, <<>>, NoneVal)

\* The environment: the wall clock shows another reading.
ClockStep ==
    /\ \E t \in Times \ {now} : now' = t
    /\ UNCHANGED <<store_vars, collector_vars, history_vars, api_vars, query, fetch_vars>>

\* A collector, seen from the Query Service: at its start init_db creates
\* the table.
CollectorCreatesTable ==
    /\ store_up
    /\ ~table_exists
    /\ table' = TableAfterInitDb("ok")
    /\ table_exists' = TableExistsAfterInitDb("ok")
    /\ UNCHANGED <<store_up, collector_vars, history_vars, api_vars, query_vars, fetch_vars>>

\* A collector, seen from the Query Service: a cycle fetches an observation,
\* stamps it with datetime.now(), and store_weather_data commits it.
CollectorWrites ==
    /\ store_up
    /\ table_exists
    /\ Len(table) < MaxRows
    /\ \E temp \in Temps : table' = Append(table, Row(Observation(temp, now), table))
    /\ UNCHANGED <<store_up, table_exists, collector_vars, history_vars, api_vars, query_vars, fetch_vars>>

\* A request for one of the data routes arrives. The handler parses and
\* validates its parameters and computes the time threshold; all of that comes
\* before get_db_connection(). get_current_weather takes no parameters.
QueryReceive ==
    /\ query.state = "idle"
    /\ \/ query' = [state |-> "parsed", path |-> "/api/weather/current"]
       \/ \E h \in ArgValues(HoursArgs), l \in ArgValues(LimitArgs) :
            LET hours == ValidHours(ArgsGet(h, DEFAULT_HOURS))
                limit == ValidLimit(ArgsGet(l, DEFAULT_LIMIT))
            IN  query' = [state |-> "parsed", path |-> "/api/weather/history",
                          hours_arg |-> h, limit_arg |-> l, hours |-> hours,
                          limit |-> limit, time_threshold |-> TimeThreshold(hours)]
       \/ \E h \in ArgValues(HoursArgs) :
            LET hours == ValidHours(ArgsGet(h, DEFAULT_HOURS))
            IN  query' = [state |-> "parsed", path |-> "/api/weather/stats",
                          hours_arg |-> h, hours |-> hours,
                          time_threshold |-> TimeThreshold(hours)]
    /\ UNCHANGED <<store_vars, collector_vars, history_vars, api_vars, now, fetch_vars>>

\* The api_requests_total increments of a data handler: each of its return
\* statements is preceded by one, with the status it returns.
DataCounted(path, status) == <<Label(path, status)>>

\* The api_request_duration observations of a data handler: none.
DataObserved(path) == 0

\* How the store calls of a handler may end: get_db_connection() raises
\* ("connect_failed", the only way on an unreachable store), or cur.execute or
\* the fetch raises ("query_failed"), or the result is fetched ("ok").
ReadOutcomes ==
    IF ~store_up THEN {"connect_failed"}
    ELSE IF ~table_exists THEN {"connect_failed", "query_failed"}
    ELSE {"ok", "connect_failed", "query_failed"}

\* The connections a data handler opened and the conn.close() calls it made:
\* get_db_connection() is the first statement of the try block, cur.close()
\* and conn.close() follow the fetch inside it, and neither the except clause
\* nor a `finally` closes anything.
HandlerConns(outcome) ==
    [opened |-> IF outcome = "connect_failed" THEN 0 ELSE 1,
     closed |-> IF outcome = "ok" THEN 1 ELSE 0]

\* get_db_connection(), cur.execute(...), the fetch and the response. Every
\* statement of a handler is inside its `try`, and its `except Exception`
\* returns a response. A SELECT changes no row.
QueryExecute ==
    /\ query.state = "parsed"
    /\ \E outcome \in ReadOutcomes :
        \E answer \in
            (CASE outcome # "ok" -> {ReadFailure}
               [] outcome = "ok" /\ query.path = "/api/weather/current" ->
                    {CurrentAnswer(rows) : rows \in SelectRows(table, 1..Len(table), 1)}
               [] outcome = "ok" /\ query.path = "/api/weather/history" ->
                    {HistoryAnswer(rows) :
                        rows \in SelectRows(table, Matching(table, query.time_threshold),
                                            query.limit)}
               [] OTHER ->
                    {StatsAnswer(Aggregate(table, Matching(table, query.time_threshold)))}) :
            query' = [query EXCEPT !.state = "done"]
                        @@ [answer |-> answer, outcome |-> outcome,
                            ok |-> (outcome = "ok"),
                            conns |-> HandlerConns(outcome),
                            counted |-> DataCounted(query.path, answer.status),
                            observed |-> DataObserved(query.path)]
    /\ UNCHANGED <<store_vars, collector_vars, history_vars, api_vars, now, fetch_vars>>

\* The response is sent; the next request is followed.
QueryDone ==
    /\ query.state = "done"
    /\ query' = NoQuery
    /\ UNCHANGED <<store_vars, collector_vars, history_vars, api_vars, now, fetch_vars>>

\* ------------------------------------- provider client, call by call
\* WeatherAPI.get_weather_data(), called on its own as the unit tests call it:
\* weather_api_requests_total.inc(), then the request; the except clause
\* counts the error and returns None.
GetWeatherData ==
    /\ metrics.requests < MaxCalls
    /\ \E response \in ProviderResponses, temp \in Temps :
        LET outcome == GetWeatherDataOutcome(response) IN
        /\ fetch_call' = [response |-> response,
                          raised |-> RaisedInTry(response),
                          outcome |-> outcome,
                          result |-> IF outcome = "ok" THEN Observation(temp, now)
                                                      ELSE NoneVal,
                          http_requests |-> HttpRequests(response)]
        /\ metrics' = IF outcome = "none"
                        THEN Bump(Bump(metrics, "requests"), "errors")
                        ELSE Bump(metrics, "requests")
    /\ UNCHANGED <<store_vars, api_key_set, update_interval, pc, exit_code,
                   shutdown_flag, app_healthy, db_healthy, weather_data, slept,
                   hs_running, hs_resp, history_vars, api_vars, query_vars,
                   store_call>>

\* ---------------------------------------------- store client, call by call
\* WeatherDB.store_weather_data(data), called on its own with an observation
\* stamped by the clock: db_operations_total{insert}.inc(), then connection,
\* INSERT and commit; `except Exception` counts the error and re-raises.
StoreWeatherData ==
    /\ metrics.db_insert < MaxCalls
    /\ \E outcome \in StoreOutcomes, temp \in Temps :
        LET data == Observation(temp, now) IN
        /\ table' = TableAfterStore(outcome, data)
        /\ store_call' = [method |-> "store_weather_data", outcome |-> outcome,
                          returned |-> (outcome = "ok"), data |-> data,
                          before |-> table, existed |-> table_exists]
                         @@ Resources(StorePoint(outcome))
        /\ metrics' = IF outcome = "ok"
                        THEN Bump(metrics, "db_insert")
                        ELSE Bump(Bump(metrics, "db_insert"), "db_errors")
    /\ UNCHANGED <<store_up, table_exists, api_key_set, update_interval, pc, exit_code,
                   shutdown_flag, app_healthy, db_healthy, weather_data, slept,
                   hs_running, hs_resp, history_vars, api_vars, query_vars,
                   fetch_call>>

\* WeatherDB.init_db(), called on its own: db_operations_total{init}.inc(),
\* then connection, CREATE TABLE IF NOT EXISTS and commit;
\* `except OperationalError` counts the error and re-raises, any other
\* exception passes through the `finally` block only.
InitDbCall ==
    /\ metrics.db_init < MaxCalls
    /\ \E outcome \in InitDbOutcomes : \E point \in InitDbPoints(outcome) :
        /\ table' = TableAfterInitDb(outcome)
        /\ table_exists' = TableExistsAfterInitDb(outcome)
        /\ store_call' = [method |-> "init_db", outcome |-> outcome,
                          returned |-> (outcome = "ok"), data |-> NoneVal,
                          before |-> table, existed |-> table_exists]
                         @@ Resources(point)
        /\ db_healthy' = CASE outcome = "ok" -> TRUE
                           [] outcome = "operational_error" -> FALSE
                           [] OTHER -> db_healthy
        /\ metrics' = IF outcome = "operational_error"
                        THEN Bump(Bump(metrics, "db_init"), "db_errors")
                        ELSE Bump(metrics, "db_init")
    /\ UNCHANGED <<store_up, api_key_set, update_interval, pc, exit_code,
                   shutdown_flag, app_healthy, weather_data, slept,
                   hs_running, hs_resp, history_vars, api_vars, query_vars,
                   fetch_call>>

\* ------------------------------------------------------- specifications
\* The collector process, its health server, signals and the store.
Next ==
    \/ LoopStep
    \/ SignalHandler
    \/ HealthGet
    \/ HealthDone
    \/ StoreFlap

Spec == Init /\ [][Next]_vars

\* The main thread and what acts on it: signals and the store. The health
\* server reads the two flags and writes nothing that main reads, so the
\* progress of main is followed without its requests.
MainNext ==
    \/ LoopStep
    \/ SignalHandler
    \/ StoreFlap

\* The main thread keeps running: every call it makes returns or raises, and
\* every sleep ends.
FairSpec == Init /\ [][MainNext]_vars /\ WF_vars(LoopStep)

\* The Query Service and the store.
ApiNext ==
    \/ ApiStartup
    \/ \E c \in 1..NumClients : ApiReceive(c) \/ ApiProbe(c) \/ ApiRespond(c)
    \/ StoreFlap

ApiSpec == Init /\ [][ApiNext]_vars

\* The data handlers of the Query Service, the store, the clock and a
\* collector that writes.
QueryNext ==
    \/ QueryReceive
    \/ QueryExecute
    \/ QueryDone
    \/ CollectorCreatesTable
    \/ CollectorWrites
    \/ ClockStep
    \/ StoreFlap

\* The provider client, called again and again, and the clock. WeatherAPI()
\* was constructed, so the key is set.
FetchNext ==
    \/ GetWeatherData
    \/ ClockStep

FetchInit == Init /\ api_key_set

FetchSpec == FetchInit /\ [][FetchNext]_vars

\* The collector process is not followed here: its configuration is fixed.
QueryInit == Init /\ api_key_set /\ update_interval = 0

QuerySpec == QueryInit /\ [][QueryNext]_vars

\* The store client, called again and again, the clock and the store.
StoreNext ==
    \/ InitDbCall
    \/ StoreWeatherData
    \/ ClockStep
    \/ StoreFlap

StoreSpec == QueryInit /\ [][StoreNext]_vars

\* ------------------------------------------------------------------ claims
IntervalWait == {"interval_check", "interval_sleep"}

\* The steps of a cycle whose fetch returned None, while no signal arrives.
C1_CycleAfterNone ==
    /\ fetch_outcome' = "none" /\ fetch_outcome # "none" =>
          pc' = "interval_check" /\ slept' = 0 /\ cycle_inserts' = 0
    /\ fetch_outcome = "none" /\ ~shutdown_flag' =>
          /\ table' = table
          /\ metrics'.db_insert = metrics.db_insert
          /\ cycle_inserts' = 0
          /\ pc = "interval_check" /\ slept < update_interval =>
                pc' \in IntervalWait /\ slept' = slept
          /\ pc = "interval_sleep" /\ pc' # pc =>
                pc' = "interval_check" /\ slept' = slept + 1
          /\ pc = "loop_check" /\ pc' # pc =>
                pc' = "fetch" /\ slept = update_interval /\ cycle' = cycle + 1

\* C1: a cycle whose fetch returned None performs no insert; while no signal
\* arrives the loop leaves the wait that follows only after update_interval
\* sleeps of one second, and the step after that starts the next fetch, which
\* a running loop does reach.
C1_FetchErrorDoesNotStopNextCycle ==
    /\ [][C1_CycleAfterNone]_vars
    /\ \A n \in 1..(MaxCycles - 1) :
          (fetch_outcome = "none" /\ cycle = n)
             ~> (shutdown_flag \/ (pc = "fetch" /\ cycle = n + 1))

C1_Witness ==
    /\ pc = "fetch" /\ cycle = 2 /\ metrics.errors = 1 /\ sig_pc = "none"
    /\ slept = update_interval /\ update_interval = MaxInterval /\ table = <<>>

\* What holds in every state after a signal delivered during the interval wait.
C2_AfterSignalMidSleep ==
    sig_pc \in IntervalWait =>
        /\ since_signal <= 1
        /\ fetches_after_signal = 0
        /\ inserts_after_signal = 0
        /\ pc \in IntervalWait \cup {"loop_check", "stopped"}
        /\ pc = "interval_sleep" => since_signal = 0

\* C2: a signal delivered during the interval wait is followed by at most
\* one more second of sleep and by no fetch and no insert; the loop goes
\* straight to the loop condition and reaches STOPPED.
C2_SignalMidSleepStopsWithinOneSecond ==
    /\ []C2_AfterSignalMidSleep
    /\ (sig_pc \in IntervalWait) ~> (pc = "stopped" /\ since_signal <= 1)

C2_Witness ==
    /\ pc = "stopped" /\ sig_pc = "interval_sleep" /\ since_signal = 1
    /\ update_interval - slept >= 1 /\ update_interval = MaxInterval

\* C3: a signal delivered while the loop is suspended in any wait, the
\* interval wait or the back-off, is followed by at most one second of sleep.
C3_EveryWaitHonoursSignalWithinOneSecond ==
    sig_pc \in IntervalWait \cup {"backoff"} => since_signal <= 1

\* init_db is over and did not set db_healthy, or WeatherAPI() was called
\* without a credential.
StartupFailed ==
    \/ pc \notin {"start", "init_db"} /\ ~db_healthy
    \/ pc \notin {"start", "init_db", "api_init"} /\ ~api_key_set

\* C4: when init_db has failed or the credential is absent, main has ended
\* with a non-zero status and no fetch and no insert was ever started.
C4_StartupFailureIsFatal ==
    StartupFailed =>
        /\ pc = "crashed"
        /\ exit_code \notin {-1, 0}
        /\ cycle = 0
        /\ metrics.requests = 0
        /\ metrics.db_insert = 0
        /\ table = <<>>

C4_Witness ==
    pc = "crashed" /\ exit_code = 1 /\ db_healthy /\ ~api_key_set /\ sig_pc = "none"

\* A step that takes main out of the loop.
C5_LeavesLoop ==
    Running /\ ~Running' => shutdown_flag /\ pc = "loop_check" /\ pc' = "stopped"

\* C5: every step that takes main out of the loop is the exit of
\* `while not shutdown_flag` with the flag set; no outcome of a fetch or of an
\* insert leaves the loop.
C5_OnlySignalEndsLoop == [][C5_LeavesLoop]_vars

C5_Witness ==
    /\ Running /\ cycle = 2 /\ fetch_outcome = "raised" /\ metrics.errors = 1
    /\ sig_pc = "none"

\* C6: once a signal has been delivered to the running loop, main reaches
\* STOPPED and returns with status 0.
C6_ShutdownCompletes ==
    (shutdown_flag /\ Running) ~> (pc = "stopped" /\ exit_code = 0)

C6_Witness ==
    /\ pc = "stopped" /\ exit_code = 0 /\ sig_pc = "store" /\ metrics.db_errors = 1
    /\ since_signal = BACKOFF

\* C7: a signal delivered while a fetch is in flight clears app_healthy in the
\* same step; the fetch runs to its end, and when it returns an observation
\* the insert of that cycle is started before the loop stops; no further
\* fetch is started.
C7_DrainingFinishesCycle ==
    sig_pc = "fetch" =>
        /\ ~app_healthy
        /\ fetches_after_signal = 0
        /\ pc = "fetch" <=> fetch_outcome = "pending"
        /\ fetch_outcome = "ok" => inserts_after_signal = 1 /\ cycle_inserts = 1
        /\ fetch_outcome # "ok" => inserts_after_signal = 0

C7_Witness ==
    /\ sig_pc = "fetch" /\ pc = "stopped" /\ fetch_outcome = "ok"
    /\ Len(table) = cycle /\ cycle = 1

\* C8 as stated: where no signal has been received, app_healthy is true.
C8_HealthyUntilSignal == sig_pc = "none" => app_healthy

\* C8 amended: where no signal has been received and main has not died on a
\* fatal error, app_healthy is true.
C8_HealthyUntilSignalOrFatal == sig_pc = "none" /\ pc # "crashed" => app_healthy

C8_Witness ==
    /\ pc = "backoff" /\ sig_pc = "none" /\ app_healthy /\ metrics.db_errors = 1
    /\ metrics.errors = 1

\* C9: the status of every /ready response of the Query Service is 200 when
\* the probe run by that very request succeeded and 503 when it failed,
\* whatever the global flag holds by then.
C9_ReadyAnswersOwnProbe ==
    \A c \in 1..NumClients :
        api_req[c].state = "done" /\ api_req[c].path = "/ready" =>
            api_req[c].status = (IF api_req[c].probe THEN 200 ELSE 503)

C9_Witness ==
    \E c, d \in 1..NumClients :
        /\ api_req[c].state = "done" /\ api_req[c].path = "/ready"
        /\ api_req[c].status = 503 /\ api_db_healthy
        /\ api_req[d].state = "done" /\ api_req[d].path = "/ready"
        /\ api_req[d].status = 200
        /\ api_pc = "serving"

\* The health server answers a /ready request while the loop runs.
C10_ReadyRequest == Running /\ hs_resp = NoResponse /\ hs_resp'.path = "/ready"

\* C10: after startup, every /ready response of the collector's health server
\* is 200 when the store is reachable at the time of the request and 503 when
\* it is not.
C10_CollectorReadyFollowsStore ==
    [][C10_ReadyRequest => hs_resp'.status = (IF store_up THEN 200 ELSE 503)]_vars

\* The health server answers a /health request.
C11_HealthRequest == hs_resp = NoResponse /\ hs_resp'.path = "/health"

\* C11: from start_health_server on, while main has neither stopped nor died,
\* the health server is serving; every /health response it gives before a
\* shutdown signal has status 200, and the status field of every /health
\* response is 'healthy' exactly when app_healthy is true.
C11_LivenessProbe ==
    /\ [](pc \in {"init_db", "api_init"} \cup RunningPcs => hs_running)
    /\ [][C11_HealthRequest =>
            /\ sig_pc = "none" => hs_resp'.status = 200
            /\ hs_resp'.body = "healthy" <=> app_healthy]_vars

C11_Witness ==
    /\ hs_resp.path = "/health" /\ hs_resp.status = 200 /\ hs_resp.body = "healthy"
    /\ sig_pc = "none" /\ pc = "backoff" /\ db_healthy /\ ~store_up

\* The fields of a row other than the key the store assigns.
Fields(r) ==
    [temperature |-> r.temperature, humidity |-> r.humidity,
     pressure |-> r.pressure, timestamp |-> r.timestamp, city |-> r.city,
     country |-> r.country]

\* The handler of `path` runs its query on the store and the query succeeds.
Executes(path) ==
    /\ query.state = "parsed" /\ query.path = path
    /\ query'.state = "done" /\ query'.ok

\* The current query, run when the observation inserted last is the last
\* row of the table, answers with that observation.
C12_LatestIsLastInsert ==
    Executes("/api/weather/current") /\ table # <<>> =>
        /\ query'.answer.status = 200
        /\ Len(query'.answer.rows) = 1
        /\ Fields(query'.answer.rows[1]) = Fields(table[Len(table)])

\* The observation inserted last has a later timestamp than every other row.
C12_LastInsertIsNewest ==
    \A i \in 1..(Len(table) - 1) : table[i].timestamp < table[Len(table)].timestamp

\* C12 as stated: whatever the table held before, the current query that
\* follows a successful insert of o returns o, field for field.
C12_RoundTripAnyTable == [][C12_LatestIsLastInsert]_vars

\* C12 amended: when every row the table held before has an earlier
\* timestamp than o, the current query that follows a successful insert of o
\* returns o, field for field.
C12_RoundTripNewest == [][C12_LastInsertIsNewest => C12_LatestIsLastInsert]_vars

C12_Witness ==
    /\ query.state = "done" /\ query.path = "/api/weather/current" /\ query.ok
    /\ Len(table) = 2 /\ table[1].timestamp < table[2].timestamp
    /\ query.answer.rows = <<table[2]>>

\* A history request whose query succeeded has its response.
HistoryAnswered ==
    query.state = "done" /\ query.path = "/api/weather/history" /\ query.ok

\* The list a successful history query returns.
C13_HistoryList ==
    HistoryAnswered =>
        LET rows == query.answer.rows
        IN  /\ query.answer.status = 200
            /\ Len(rows) <= query.limit
            /\ Len(rows) <= MAX_LIMIT
            /\ \A j \in 1..Len(rows) : rows[j].timestamp >= query.time_threshold
            /\ \A j, k \in 1..Len(rows) :
                  j < k => rows[j].timestamp >= rows[k].timestamp

\* C13: the list of a history response has at most as many rows as the limit
\* the handler applies, and never more than 1000; every row in it has a
\* timestamp at or after the handler's reading of the clock minus the hours
\* it applies; the rows come in non-increasing order of timestamp.
C13_HistoryBounded ==
    /\ []C13_HistoryList
    /\ [][query.state = "idle" /\ query'.state = "parsed"
            /\ query'.path = "/api/weather/history" =>
                query'.time_threshold = now - query'.hours]_vars

C13_Witness ==
    /\ HistoryAnswered /\ query.limit_arg = <<1>> /\ query.hours_arg = <<1>>
    /\ Len(table) = 2 /\ table[1].timestamp > table[2].timestamp
    /\ table[2].timestamp >= query.time_threshold
    /\ query.answer.rows = <<table[1]>>

\* C14: the limit a history request is served with is the requested limit
\* clamped to [1, 1000].
C14_LimitClamped ==
    /\ query.state \in {"parsed", "done"}
    /\ query.path = "/api/weather/history"
    /\ query.limit_arg # <<>>
    => LET L == query.limit_arg[1]
       IN  query.limit = (IF L < 1 THEN 1 ELSE IF L > 1000 THEN 1000 ELSE L)

\* A history or stats request has been parsed.
WindowRequest(q) ==
    /\ q.state \in {"parsed", "done"}
    /\ q.path \in {"/api/weather/history", "/api/weather/stats"}

\* The hours a history or stats request is served with.
C15_HoursApplied ==
    WindowRequest(query) =>
        LET h == query.hours_arg
        IN  query.hours = (IF h = <<>> THEN 24 ELSE IF h[1] < 1 THEN 24 ELSE h[1])

C16_StatsStep ==
    Executes("/api/weather/stats") =>
        LET n == Cardinality(Matching(table, query.time_threshold))
            answer == query'.answer
        IN  /\ answer.status \in {200, 404}
            /\ n = 0 => /\ answer.status = 404
                        /\ answer.error # "none"
                        /\ answer.stats = NoneVal
            /\ answer.status = 200 => /\ answer.stats.record_count >= 1
                                      /\ answer.stats.record_count = n

\* C16: a stats query over a window that no row falls into is answered 404
\* with an error body and no statistics; a stats response with status 200
\* carries a record_count of at least 1, the number of rows in the window.
C16_StatsNoData == [][C16_StatsStep]_vars

C16_Witness ==
    /\ query.state = "done" /\ query.path = "/api/weather/stats" /\ query.ok
    /\ query.answer.status = 404 /\ query.answer.error # "none"
    /\ Len(table) = 2 /\ Matching(table, query.time_threshold) = {}

\* The response of a current query that succeeded, against the table it ran on.
C17_CurrentStep ==
    Executes("/api/weather/current") =>
        LET answer == query'.answer
        IN  /\ answer.status = 404 <=> table = <<>>
            /\ answer.status = 404 => answer.error # "none" /\ answer.rows = <<>>
            /\ answer.status # 404 =>
                  /\ answer.status = 200
                  /\ answer.error = "none"
                  /\ \E i \in 1..Len(table) : answer.rows = <<table[i]>>
                  /\ \A i \in 1..Len(table) :
                        table[i].timestamp <= answer.rows[1].timestamp

\* C17: a current query that the store answers gets 404 with an error body
\* exactly when the table is empty, and otherwise 200 with a row of the table
\* that no other row exceeds in timestamp.
C17_CurrentOrNotFound == [][C17_CurrentStep]_vars

C17_Witness ==
    /\ query.state = "done" /\ query.path = "/api/weather/current" /\ query.ok
    /\ query.answer.status = 200
    /\ Len(table) = 2 /\ table[1].timestamp > table[2].timestamp
    /\ query.answer.rows = <<table[1]>>

\* The step of a handler whose connection or query fails.
C18_FailureStep ==
    query.state = "parsed" /\ query'.state = "done" /\ ~query'.ok =>
        /\ query'.answer.status = 500
        /\ query'.answer.error # "none"
        /\ query'.answer.message
        /\ table' = table

\* C18: a current, history or stats request whose connection or query fails
\* is answered 500 with an error field and the message of the failure, and
\* the table is as it was; every request that reached its handler is
\* answered, and on an unreachable store every one of them fails.
C18_ReadFailureIs500 ==
    [][/\ C18_FailureStep
       /\ query.state = "parsed" /\ query' # query =>
             query'.state = "done" /\ query'.answer.status \in {200, 404, 500}
       /\ query.state = "parsed" /\ query'.state = "done" /\ ~store_up =>
             ~query'.ok]_vars

C18_Witness ==
    /\ query.state = "done" /\ query.path = "/api/weather/stats"
    /\ query.outcome = "query_failed" /\ query.answer.status = 500
    /\ query.answer.message /\ Len(table) = 2 /\ store_up

\* C19: a call of get_weather_data that receives a 2xx response whose JSON
\* lacks a required field returns None and raises nothing.
C19_MalformedPayloadReturnsNone ==
    fetch_call.response = "malformed" =>
        fetch_call.outcome = "none" /\ fetch_call.result = NoneVal

\* C20: a call of get_weather_data whose HTTP request fails, by a non-2xx
\* response, a timeout or any other exception of the HTTP call, returns None
\* and raises nothing.
C20_RequestFailureReturnsNone ==
    fetch_call.response \in {"http_error", "timeout", "exception"} =>
        fetch_call.outcome = "none" /\ fetch_call.result = NoneVal

\* Inserts and rows in every state of the loop: an insert is in flight only
\* with the observation the fetch of this cycle returned, a cycle makes at
\* most one attempt, the rows are those of the attempts that did not fail,
\* and no two rows come from the same cycle.
C21_InsertsAndRows ==
    /\ cycle_inserts <= 1
    /\ pc = "store" =>
          /\ fetch_outcome = "ok" /\ cycle_inserts = 1
          /\ weather_data.kind = "obs" /\ weather_data.timestamp = cycle
    /\ Running \/ pc = "stopped" =>
          Len(table) = metrics.db_insert - metrics.db_errors
                          - (IF pc = "store" THEN 1 ELSE 0)
    /\ Len(table) <= cycle
    /\ \A i, j \in 1..Len(table) : i < j => table[i].timestamp < table[j].timestamp

\* The steps that end an insert or change the table.
C21_InsertStep ==
    /\ table' # table => pc = "store" /\ pc' = "interval_check"
    /\ pc = "store" /\ pc' = "interval_check" =>
          /\ Len(table') = Len(table) + 1
          /\ Fields(table'[Len(table')]) = Fields(Row(weather_data, table))
    /\ pc = "store" /\ pc' \notin {"store", "interval_check"} =>
          table' = table /\ pc' = "backoff"

\* C21: the table grows by one row exactly in the steps in which
\* store_weather_data returns, and those are steps of a cycle whose fetch
\* returned an observation; a cycle attempts at most one insert, and the number
\* of rows is the number of attempts that did not fail.
C21_ExactlyOncePersistence == []C21_InsertsAndRows /\ [][C21_InsertStep]_vars

C21_Witness ==
    /\ Len(table) = 1 /\ cycle = 2 /\ metrics.db_insert = 2 /\ metrics.db_errors = 1
    /\ table[1].timestamp = 2 /\ pc = "interval_check"

\* A call of store_weather_data is over.
StoreCalled == store_call.method = "store_weather_data"

\* C22: a call of store_weather_data that returns has added exactly its one
\* row, with the fields it was given, after the rows that were there; a call
\* that raises, at the connection, at the INSERT or at the commit, leaves the
\* table as it was before the call.
C22_InsertAtomic ==
    /\ [](StoreCalled =>
            /\ store_call.returned =>
                  /\ Len(table) = Len(store_call.before) + 1
                  /\ SubSeq(table, 1, Len(store_call.before)) = store_call.before
                  /\ Fields(table[Len(table)]) = Fields(store_call.data)
            /\ ~store_call.returned => table = store_call.before
            /\ store_call.returned <=> store_call.outcome = "ok")
    /\ [][metrics'.db_insert = metrics.db_insert + 1 =>
            metrics'.db_errors = metrics.db_errors
                                    + (IF store_call'.returned THEN 0 ELSE 1)]_vars

C22_Witness ==
    /\ StoreCalled /\ store_call.outcome = "commit_failed" /\ store_up
    /\ Len(table) = 1 /\ table = store_call.before /\ metrics.db_errors = 1
    /\ metrics.db_insert = 2

\* The paths that health(), ready() and metrics() are routed to.
HandlerPaths == {"/health", "/ready", "/metrics"}

\* C23: every answered request to a handler of the Query Service has
\* incremented the request counter exactly once, on the label carrying the
\* status that was returned.
C23_EveryRequestCounted ==
    \A c \in 1..NumClients :
        api_req[c].state = "done" /\ api_req[c].path \in HandlerPaths =>
            api_req[c].counted = <<Label(api_req[c].path, api_req[c].status)>>

\* C24: every request a data handler has answered has recorded exactly one
\* observation in the duration histogram.
C24_EveryRequestObserved ==
    query.state = "done" => query.observed = 1

\* C25: every response of the Query Service with a status of 400 or more has
\* a body with an error field.
C25_ErrorBodiesCarryError ==
    \A c \in 1..NumClients :
        api_req[c].state = "done" /\ api_req[c].status >= 400 =>
            api_req[c].error # "none"

\* C26: every step leaves the rows that are persisted as they are; a step that
\* changes the table adds one row at its end and is the return of
\* store_weather_data, not a step of a query handler, of a readiness or
\* health probe, of init_db or of a cycle that failed.
C26_AppendOnly ==
    [][/\ Len(table') >= Len(table)
       /\ SubSeq(table', 1, Len(table)) = table
       /\ table' # table =>
             /\ Len(table') = Len(table) + 1
             /\ query' = query /\ api_req' = api_req /\ hs_resp' = hs_resp
             /\ metrics'.db_init = metrics.db_init
             /\ pc' # pc => pc = "store" /\ pc' = "interval_check"
             /\ store_call' # store_call =>
                   store_call'.method = "store_weather_data" /\ store_call'.returned
       /\ pc = "store" /\ pc' = "backoff" => table' = table
       /\ pc = "fetch" /\ pc' # pc => table' = table]_vars

C26_Witness ==
    /\ Len(table) = 2 /\ cycle = 2 /\ table[1].id = 1 /\ table[2].id = 2
    /\ metrics.db_errors = 0 /\ hs_resp # NoResponse

\* A step in which init_db is called on its own.
InitDbCalled == metrics'.db_init = metrics.db_init + 1

\* C27: a call of init_db leaves every row as it is and, once it has
\* returned, the table exists; a call on a store whose table exists changes
\* nothing in the store, so any number of calls leave what one call leaves.
\* A table that does not exist has no rows.
C27_InitIdempotent ==
    /\ [](~table_exists => table = <<>>)
    /\ [][InitDbCalled =>
            /\ table' = table
            /\ table_exists' = (table_exists \/ store_call'.returned)
            /\ table_exists => table_exists'
            /\ store_call.method = "init_db" /\ store_call.returned =>
                  table' = table /\ table_exists' = table_exists /\ table_exists]_vars

C27_Witness ==
    /\ store_call.method = "init_db" /\ store_call.returned /\ store_call.existed
    /\ Len(table) = 2 /\ table = store_call.before /\ metrics.db_init = 3

\* C28: the back-off is entered only from a cycle in which an exception other
\* than a store write error was raised; the step in which store_weather_data
\* fails with a write error leads to the wait of the configured interval.
C28_WriteErrorWaitsInterval ==
    [][pc = "store" /\ metrics'.db_errors = metrics.db_errors + 1 =>
          pc' = "interval_check" /\ slept' = 0]_vars

\* C29: the back-off begins with nothing waited in the cycle; its step leads
\* to the loop condition with exactly the fixed back-off waited and no second
\* of the interval; with no signal received the loop condition then starts
\* the next cycle's fetch, and the main thread neither stops nor dies. A
\* back-off that begins is followed by the next fetch, or by a signal.
C29_BackoffThenFetch ==
    /\ [](pc = "backoff" => waited = 0 /\ pc \notin IntervalWait)
    /\ [][pc = "backoff" /\ pc' # pc =>
            /\ pc' = "loop_check"
            /\ waited' = BACKOFF
            /\ slept' = slept
            /\ exit_code' = exit_code]_vars
    /\ [][pc = "loop_check" /\ waited = BACKOFF /\ pc' # pc /\ ~shutdown_flag =>
            pc' = "fetch" /\ cycle' = cycle + 1 /\ exit_code' = -1]_vars
    /\ (pc = "backoff" /\ cycle < MaxCycles) ~> (pc = "fetch" \/ shutdown_flag)

C29_Witness ==
    /\ pc = "loop_check" /\ waited = BACKOFF /\ ~shutdown_flag /\ cycle = 1
    /\ update_interval = 2 /\ slept = 0 /\ fetch_outcome = "raised"

\* The calls of the collector that are in flight.
FetchInFlight == pc = "fetch"
InsertInFlight == pc = "store"

\* C30: a fetch and an insert are never in flight together, and each cycle
\* has made one fetch and at most one insert. A fetch begins only at the loop
\* condition, with no call in flight; an insert begins only in the step in
\* which the fetch of its cycle returns; an insert that is in flight returns
\* or raises before the main thread does anything else. A signal delivery or
\* a step of a health request begins and ends no call and writes no row.
C30_StrictSerialization ==
    /\ [](/\ ~(FetchInFlight /\ InsertInFlight)
          /\ metrics.requests = cycle
          /\ metrics.db_insert <= cycle
          /\ cycle_inserts <= 1
          /\ FetchInFlight => cycle_inserts = 0
          /\ InsertInFlight => cycle_inserts = 1)
    /\ [][/\ metrics'.requests # metrics.requests \/ (FetchInFlight' /\ ~FetchInFlight) =>
               /\ pc = "loop_check" /\ FetchInFlight'
               /\ metrics'.requests = metrics.requests + 1
          /\ metrics'.db_insert # metrics.db_insert \/ (InsertInFlight' /\ ~InsertInFlight) =>
               /\ FetchInFlight /\ InsertInFlight'
               /\ metrics'.db_insert = metrics.db_insert + 1
          /\ InsertInFlight /\ (pc' # pc \/ metrics' # metrics \/ table' # table) =>
               pc' \in {"interval_check", "backoff"}
          /\ hs_resp' # hs_resp \/ shutdown_flag' # shutdown_flag =>
               pc' = pc /\ metrics' = metrics /\ table' = table /\ cycle' = cycle]_vars

C30_Witness ==
    /\ InsertInFlight /\ cycle = 2 /\ shutdown_flag /\ sig_pc = "store"
    /\ hs_resp # NoResponse /\ Len(table) = 1

\* A step in which get_weather_data is called on its own.
GetWeatherDataCalled == metrics'.requests = metrics.requests + 1

\* C31: a call of get_weather_data, however it ends, has sent exactly one
\* HTTP request to the provider.
C31_NoInternalRetry ==
    /\ [](fetch_call.outcome # "pending" => fetch_call.http_requests = 1)
    /\ [][GetWeatherDataCalled => fetch_call'.http_requests = 1]_vars

C31_Witness ==
    /\ fetch_call.response = "timeout" /\ fetch_call.outcome = "none"
    /\ fetch_call.http_requests = 1 /\ metrics.requests = 2 /\ metrics.errors = 2

\* C36: every call of get_weather_data adds one to weather_api_requests_total,
\* and adds one to weather_api_errors_total exactly when it does not return
\* an observation.
C36_FetchMetrics ==
    /\ [](metrics.errors <= metrics.requests)
    /\ [][GetWeatherDataCalled =>
            metrics'.errors = metrics.errors
                                + (IF fetch_call'.outcome = "ok" THEN 0 ELSE 1)]_vars

\* C32: when a call of init_db or of store_weather_data is over, the
\* connection and the cursor it opened, at most one of each, have been closed
\* exactly once, whether the call returned or raised at the connection, at
\* the cursor, at the statement or at the commit; nothing it did not open
\* was closed.
C32_CollectorConnectionsClosed ==
    /\ store_call.conns.opened <= 1 /\ store_call.cursors.opened <= 1
    /\ store_call.conns.closed = store_call.conns.opened
    /\ store_call.cursors.closed = store_call.cursors.opened
    /\ store_call.method # "none" =>
          /\ store_call.conns.opened = 1 <=> store_call.point # "connect"
          /\ store_call.cursors.opened = 1 <=> store_call.point \notin {"connect", "cursor"}
          /\ store_call.returned <=> store_call.point = "none"

C32_Witness ==
    /\ StoreCalled /\ store_call.outcome = "execute_failed" /\ ~store_call.returned
    /\ store_call.conns = [opened |-> 1, closed |-> 1]
    /\ store_call.cursors = [opened |-> 1, closed |-> 1]
    /\ metrics.db_init = 1 /\ metrics.db_errors = 1

\* C33: no step clears the shutdown flag; a fetch begins only in a step of
\* the loop condition taken with the flag clear; once the signal has been
\* delivered no cycle begins, so no fetch is started after it and the cycle
\* that was in flight is the last one.
C33_NoFetchAfterSignal ==
    /\ [](/\ fetches_after_signal = 0
          /\ shutdown_flag <=> sig_pc # "none"
          /\ inserts_after_signal <= 1)
    /\ [][/\ shutdown_flag => shutdown_flag'
          /\ pc' = "fetch" /\ pc # "fetch" => pc = "loop_check" /\ ~shutdown_flag
          /\ shutdown_flag => cycle' = cycle /\ metrics'.requests = metrics.requests
          /\ shutdown_flag /\ pc = "loop_check" /\ pc' # pc => pc' = "stopped"]_vars

C33_Witness ==
    /\ pc = "stopped" /\ sig_pc = "fetch" /\ inserts_after_signal = 1
    /\ cycle = 2 /\ Len(table) = 2 /\ shutdown_flag

\* C34: when a data handler has answered, it has closed every store
\* connection it opened, also when its query failed on an open connection.
C34_HandlerConnectionsClosed ==
    query.state = "done" => query.conns.closed = query.conns.opened

\* The health server answers a /ready request.
C35_ReadyRequest == hs_resp = NoResponse /\ hs_resp'.path = "/ready"

\* STARTING: init_db and the construction of WeatherAPI.
Starting == pc \in {"init_db", "api_init"}

\* db_healthy is false until init_db has committed and true only after it
\* has; a signal delivery leaves it as it is.
C35_FlagFollowsInitDb ==
    /\ [](/\ pc \in {"start", "init_db"} => ~db_healthy
          /\ db_healthy <=> table_exists
          /\ db_healthy => metrics.db_init = 1 /\ metrics.db_errors <= metrics.db_insert)
    /\ [][/\ db_healthy' # db_healthy => pc = "init_db" /\ pc' = "api_init" /\ db_healthy'
          /\ shutdown_flag' # shutdown_flag => db_healthy' = db_healthy]_vars

====
